---- MODULE Spec2Model ----
(***************************************************************************)
(* MappingApp.py: one run of the Streamlit script.  The script fetches the *)
(* ACS population table and the TIGER block-group polygons, merges them    *)
(* into a density table, derives the choropleth bins, adds the choropleth  *)
(* layer to a folium map, then calls plot_gtfs once per selected transit   *)
(* mode and finally adds the layer control and renders the map.            *)
(*                                                                         *)
(* Strings built by the script with f-strings are modelled as tuples of    *)
(* their parts: f"{label} Routes" is <<label, "Routes">>.  Digit strings   *)
(* (Census codes) are sequences of digits.  A real number is an exact      *)
(* fraction [num, den]; the float infinity that pandas produces for x / 0  *)
(* is a fraction of denominator 0.                                         *)
(*                                                                         *)
(* download_gtfs (lines 50-62) only fills the folders; what plot_gtfs finds *)
(* in a folder is chosen at each call.  A folium constructor is taken to   *)
(* accept whatever the script passes it.                                   *)
(***************************************************************************)
EXTENDS Integers, Sequences, FiniteSets, TLC

VARIABLES
    pc,               \* position of the script
    selected_modes,   \* st.multiselect result (line 71)
    show_stops,       \* st.checkbox result (line 72)
    show_population,  \* st.checkbox result (line 73)
    population_df,    \* line 107
    shapes_gdf,       \* line 124
    merged,           \* lines 127-135
    max_pop_density,  \* line 140
    bins,             \* line 141
    m,                \* the folium map: the sequence of layers added to it
    rendered,         \* st_folium was called with m (line 226)
    reports,          \* st.warning / st.error messages shown so far
    fault,            \* the uncaught exception that stopped the script
    idx,              \* position of the loop of line 221 in selected_modes
    label,            \* plot_gtfs, most recent call: its label
    exc,              \* the table whose read raised, "none" when none did
    shapes,           \* the tables it read
    trips,
    routes,
    stops,
    route_group,      \* the feature groups it built
    stop_group

vars == <<pc, selected_modes, show_stops, show_population, population_df,
          shapes_gdf, merged, max_pop_density, bins, m, rendered, reports,
          fault, idx, label, exc, shapes, trips, routes, stops, route_group,
          stop_group>>

\* The locals of plot_gtfs.
locals == <<label, exc, shapes, trips, routes, stops, route_group, stop_group>>

-----------------------------------------------------------------------------
(* Bounds of the model *)

MaxPolys == 2      \* rows of the block-group shapefile
MaxTrips == 2      \* rows of trips.txt

-----------------------------------------------------------------------------
(* Values *)

\* A float: nan, or the number val.
NaN == [nan |-> TRUE, val |-> 0]

Num(n) == [nan |-> FALSE, val |-> n]

\* An exact fraction; den = 0 is the float +inf (a positive number / 0.0).
Frac(n, d) == [num |-> n, den |-> d]

FracLeq(a, b) ==
    IF b.den = 0 THEN TRUE
    ELSE IF a.den = 0 THEN FALSE
    ELSE a.num * b.den <= b.num * a.den

\* A data frame, or Python's None.
NoneFrame == [is_none |-> TRUE, dtype |-> "str", rows |-> <<>>]

Frame(dtype, rows) == [is_none |-> FALSE, dtype |-> dtype, rows |-> rows]

RECURSIVE SeqsUpTo(_, _)
SeqsUpTo(S, n) ==
    IF n = 0 THEN {<<>>}
    ELSE LET shorter == SeqsUpTo(S, n - 1)
         IN  shorter \cup {Append(s, x) : s \in {t \in shorter : Len(t) = n - 1}, x \in S}

Range(s) == {s[i] : i \in 1..Len(s)}

RECURSIVE Concat(_)
Concat(ss) == IF ss = <<>> THEN <<>> ELSE Head(ss) \o Concat(Tail(ss))

-----------------------------------------------------------------------------
(* GTFS_FEEDS, lines 19-45 *)

GTFS_FEEDS ==
    [mode \in {"Local Bus", "Light Rail", "Metro Subway", "MARC Train", "Commuter Bus"} |->
        CASE mode = "Local Bus"    -> [folder |-> "bus", color |-> "blue"]
          [] mode = "Light Rail"   -> [folder |-> "light_rail", color |-> "purple"]
          [] mode = "Metro Subway" -> [folder |-> "metro", color |-> "red"]
          [] mode = "MARC Train"   -> [folder |-> "marc_train", color |-> "green"]
          [] mode = "Commuter Bus" -> [folder |-> "commuter_bus", color |-> "orange"]]

-----------------------------------------------------------------------------
(* fetch_population_data, lines 77-105 *)

\* The state code of the request ("in": "state:24", line 89).
StateCode == <<2, 4>>

\* The counties the loop of line 85 asks for: the first and the last entry of
\* the list of lines 78-81.
counties == << <<0, 0, 1>>, <<5, 1, 0>> >>

\* pd.to_numeric(..., errors="coerce"), line 96: a numeric string becomes its
\* number, anything else (a JSON null, a non-numeric string) becomes NaN.
ToNumeric(raw) == IF raw.numeric THEN Num(raw.val) ELSE NaN

\* TabularGEOID with the county ahead of the state.
TabularGEOID_CountyFirst(row) == row.county \o row.state \o row.tract \o row.block_group

\* Line 95: the GEOID of a row of the API's answer.
TabularGEOID(row) == row.state \o row.county \o row.tract \o row.block_group

\* Lines 94-96: the data frame of one county's answer.
CountyFrame(answer) ==
    [i \in 1..Len(answer.rows) |->
        [state |-> answer.rows[i].state, county |-> answer.rows[i].county,
         tract |-> answer.rows[i].tract, block_group |-> answer.rows[i].block_group,
         GEOID |-> TabularGEOID(answer.rows[i]),
         population |-> ToNumeric(answer.rows[i].population)]]

\* Lines 85-105: answers[i] is the answer for counties[i]; ok is FALSE when
\* the request raised.
FetchResult(answers) ==
    LET all_data == [i \in 1..Len(answers) |->
                        IF answers[i].ok THEN CountyFrame(answers[i]) ELSE <<>>]
    IN  IF \A i \in 1..Len(answers) : ~answers[i].ok
        THEN NoneFrame
        ELSE Frame("str", Concat(all_data))

FetchWarnings(answers) ==
    LET w == [i \in 1..Len(answers) |->
                 IF answers[i].ok
                 THEN <<>>
                 ELSE <<[kind |-> "warning", about |-> <<"county", counties[i]>>]>>]
    IN  Concat(w)

FetchPopulationData(answers) ==
    /\ pc = "fetch_population_data"
    /\ population_df' = FetchResult(answers)
    /\ reports' = reports \o FetchWarnings(answers)
    /\ pc' = "load_bg_shapes"
    /\ UNCHANGED <<selected_modes, show_stops, show_population, shapes_gdf, merged,
                   max_pop_density, bins, m, rendered, fault, idx, locals>>

-----------------------------------------------------------------------------
(* load_bg_shapes, lines 111-122 *)

\* file is NoneFrame when the download or the read raised, else the frame read
\* from the shapefile: rows of [GEOID, area_km2], the GEOID column of type
\* dtype.
LoadBgShapes(file) ==
    /\ pc = "load_bg_shapes"
    /\ shapes_gdf' = file
    /\ reports' = IF file.is_none
                  THEN Append(reports, [kind |-> "error",
                                        about |-> <<"block group shapefile">>])
                  ELSE reports
    /\ pc' = "merge"
    /\ UNCHANGED <<selected_modes, show_stops, show_population, population_df, merged,
                   max_pop_density, bins, m, rendered, fault, idx, locals>>

-----------------------------------------------------------------------------
(* Merge geometry with population, lines 127-135 *)

\* An int64 is held as [hi, lo], its value hi * 10^6 + lo with lo < 10^6.
RECURSIVE DigitsOf(_)
DigitsOf(n) == IF n < 10 THEN <<n>> ELSE Append(DigitsOf(n \div 10), n % 10)

RECURSIVE ValueOf(_)
ValueOf(ds) == IF ds = <<>> THEN 0 ELSE 10 * ValueOf(SubSeq(ds, 1, Len(ds) - 1)) + ds[Len(ds)]

ZeroPad(ds, w) == [i \in 1..(w - Len(ds)) |-> 0] \o ds

\* str() of an int64: its decimal digits, without leading zeros.
IntToStr(n) ==
    IF n.hi = 0 THEN DigitsOf(n.lo) ELSE DigitsOf(n.hi) \o ZeroPad(DigitsOf(n.lo), 6)

\* Line 128, Series.astype(str): a string stays, an integer is written out.
AsTypeStr(dtype, v) == IF dtype = "int" THEN IntToStr(v) ELSE v

\* Line 129, the rows the left merge makes of one polygon row: one per
\* population row with the same GEOID, in the order of population_df, or one
\* with a NaN population when there is none.
RECURSIVE Matches(_, _)
Matches(key, poprows) ==
    IF poprows = <<>> THEN <<>>
    ELSE IF Head(poprows).GEOID = key
         THEN <<Head(poprows).population>> \o Matches(key, Tail(poprows))
         ELSE Matches(key, Tail(poprows))

MergeRow(poly, poprows) ==
    LET found == Matches(poly.GEOID, poprows)
        pops == IF found = <<>> THEN <<NaN>> ELSE found
    IN  [i \in 1..Len(pops) |->
            [GEOID |-> poly.GEOID, geometry |-> poly.area_km2, population |-> pops[i]]]

LeftMerge(gdf, df) ==
    Concat([i \in 1..Len(gdf.rows) |-> MergeRow(gdf.rows[i], df.rows)])

\* Line 128: the GEOID column of shapes_gdf is replaced by its strings.
Coerced(gdf) ==
    Frame("str", [i \in 1..Len(gdf.rows) |->
                     [gdf.rows[i] EXCEPT !.GEOID = AsTypeStr(gdf.dtype, @)]])

\* Populated without the test of the sign.
Populated_NotNull(row) == ~row.population.nan

\* Line 130, the row mask.
Populated(row) == ~row.population.nan /\ row.population.val > 0

RECURSIVE Retain(_)
Retain(rows) ==
    IF rows = <<>> THEN <<>>
    ELSE IF Populated(Head(rows)) THEN <<Head(rows)>> \o Retain(Tail(rows))
         ELSE Retain(Tail(rows))

\* Line 133.
ClipBound == 14000

\* ClipUpper that clips nothing.
ClipUpper_Unclipped(d, upper) == d

\* Series.clip(upper=...): values above the bound become the bound.
ClipUpper(d, upper) == IF FracLeq(d, Frac(upper, 1)) THEN d ELSE Frac(upper, 1)

\* Line 132: a float division; a positive number over 0.0 is +inf.
Divide(p, a) == Frac(p, a)

\* Lines 131-133 on one retained row.
WithDensity(row) ==
    [GEOID |-> row.GEOID, geometry |-> row.geometry, population |-> row.population,
     area_km2 |-> row.geometry,
     pop_density |-> ClipUpper(Divide(row.population.val, row.geometry), ClipBound)]

MergedFrame(gdf, df) ==
    LET kept == Retain(LeftMerge(gdf, df))
    IN  Frame("str", [i \in 1..Len(kept) |-> WithDensity(kept[i])])

Merge ==
    /\ pc = "merge"
    /\ IF ~population_df.is_none /\ ~shapes_gdf.is_none
       THEN /\ shapes_gdf' = Coerced(shapes_gdf)
            /\ merged' = MergedFrame(shapes_gdf', population_df)
       ELSE /\ merged' = NoneFrame
            /\ UNCHANGED shapes_gdf
    /\ pc' = "classify"
    /\ UNCHANGED <<selected_modes, show_stops, show_population, population_df,
                   max_pop_density, bins, m, rendered, reports, fault, idx, locals>>

-----------------------------------------------------------------------------
(* The bins of the choropleth, lines 140-141 *)

RECURSIVE MaxDensity(_)
MaxDensity(rows) ==
    IF Len(rows) = 1 THEN rows[1].pop_density
    ELSE LET rest == MaxDensity(Tail(rows))
         IN  IF FracLeq(rest, rows[1].pop_density) THEN rows[1].pop_density ELSE rest

\* Line 140: int(max // 1000 + 1) * 1000.
RoundedMax(d) == ((d.num \div (d.den * 1000)) + 1) * 1000

\* list(range(start, stop, step)), step > 0.
PyRange(start, stop, step) ==
    LET n == IF stop <= start THEN 0 ELSE (stop - start + step - 1) \div step
    IN  [i \in 1..n |-> start + (i - 1) * step]

\* Line 141.
Bins(rounded) == PyRange(0, rounded + 1000, rounded \div 10)

\* Line 140 subscripts merged: a TypeError when merged is None.  The maximum
\* of an empty column is NaN, and int(NaN) is a ValueError.  Neither is caught.
Classify ==
    /\ pc = "classify"
    /\ IF merged.is_none
       THEN /\ fault' = "TypeError"
            /\ pc' = "crashed"
            /\ UNCHANGED <<max_pop_density, bins>>
       ELSE IF merged.rows = <<>>
       THEN /\ fault' = "ValueError"
            /\ pc' = "crashed"
            /\ UNCHANGED <<max_pop_density, bins>>
       ELSE /\ max_pop_density' = RoundedMax(MaxDensity(merged.rows))
            /\ bins' = Bins(max_pop_density')
            /\ pc' = "choropleth"
            /\ UNCHANGED fault
    /\ UNCHANGED <<selected_modes, show_stops, show_population, population_df,
                   shapes_gdf, merged, m, rendered, reports, idx, locals>>

-----------------------------------------------------------------------------
(* The choropleth layer, lines 148-162 *)

Layer(name, show, features, scale) ==
    [name |-> name, show |-> show, features |-> features, threshold_scale |-> scale]

\* columns=["GEOID", "pop_density"] of data=merged, over geo_data=merged.
ChoroplethFeatures(frame) ==
    [i \in 1..Len(frame.rows) |->
        [GEOID |-> frame.rows[i].GEOID,
         geometry |-> frame.rows[i].geometry,
         pop_density |-> frame.rows[i].pop_density]]

Choropleth ==
    /\ pc = "choropleth"
    /\ m' = IF show_population /\ ~merged.is_none
            THEN Append(m, Layer(<<"Population Density">>, TRUE,
                                 ChoroplethFeatures(merged), bins))
            ELSE m
    /\ pc' = "plot"
    /\ UNCHANGED <<selected_modes, show_stops, show_population, population_df,
                   shapes_gdf, merged, max_pop_density, bins, rendered, reports,
                   fault, idx, locals>>

-----------------------------------------------------------------------------
(* plot_gtfs, lines 168-218 *)

\* The files plot_gtfs reads, in the order of lines 170-173.
TableFiles == <<"shapes.txt", "trips.txt", "routes.txt", "stops.txt">>

\* Lines 175-179, the rows the left merge makes of one trip: one per routes
\* row with the same route_id, or one whose route_short_name is NaN.
RECURSIVE RouteNames(_, _)
RouteNames(route_id, rts) ==
    IF rts = <<>> THEN <<>>
    ELSE IF Head(rts).route_id = route_id
         THEN <<Head(rts).route_short_name>> \o RouteNames(route_id, Tail(rts))
         ELSE RouteNames(route_id, Tail(rts))

TripRouteRows(trip, rts) ==
    LET found == RouteNames(trip.route_id, rts)
        names == IF found = <<>> THEN <<"nan">> ELSE found
    IN  [i \in 1..Len(names) |->
            [route_id |-> trip.route_id, shape_id |-> trip.shape_id,
             route_short_name |-> names[i]]]

TripRoutes(trs, rts) == Concat([i \in 1..Len(trs) |-> TripRouteRows(trs[i], rts)])

\* Line 191: shapes[shapes['shape_id'] == shape_id]
RECURSIVE ShapeRows(_, _)
ShapeRows(shps, shape_id) ==
    IF shps = <<>> THEN <<>>
    ELSE IF Head(shps).shape_id = shape_id
         THEN <<Head(shps)>> \o ShapeRows(Tail(shps), shape_id)
         ELSE ShapeRows(Tail(shps), shape_id)

\* Line 191: sort_values('shape_pt_sequence'), ascending.
RECURSIVE Insert(_, _)
Insert(row, sorted) ==
    IF sorted = <<>> THEN <<row>>
    ELSE IF row.shape_pt_sequence < Head(sorted).shape_pt_sequence
         THEN <<row>> \o sorted
         ELSE <<Head(sorted)>> \o Insert(row, Tail(sorted))

RECURSIVE SortValues(_)
SortValues(rows) ==
    IF rows = <<>> THEN <<>>
    ELSE Insert(rows[Len(rows)], SortValues(SubSeq(rows, 1, Len(rows) - 1)))

\* Lines 191-192.
Coords(shps, shape_id) ==
    LET shape_pts == SortValues(ShapeRows(shps, shape_id))
    IN  [i \in 1..Len(shape_pts) |-> <<shape_pts[i].shape_pt_lat, shape_pts[i].shape_pt_lon>>]

\* Lines 194-200.
PolyLine(coords, color, lbl, row) ==
    [locations |-> coords, color |-> color,
     tooltip |-> <<lbl, "Route", row.route_short_name>>]

\* RouteLines that never looks into plotted_shapes: a line for every row.
RECURSIVE RouteLines_EveryRow(_, _, _, _, _)
RouteLines_EveryRow(rows, plotted, shps, color, lbl) ==
    IF rows = <<>> THEN <<>>
    ELSE <<PolyLine(Coords(shps, Head(rows).shape_id), color, lbl, Head(rows))>>
         \o RouteLines_EveryRow(Tail(rows), plotted, shps, color, lbl)

\* Lines 185-200: the lines added to route_group for the rows of trip_routes,
\* plotted the shape ids seen before them.
RECURSIVE RouteLines(_, _, _, _, _)
RouteLines(rows, plotted, shps, color, lbl) ==
    IF rows = <<>> THEN <<>>
    ELSE LET row == Head(rows)
         IN  IF row.shape_id \in plotted
             THEN RouteLines(Tail(rows), plotted, shps, color, lbl)
             ELSE <<PolyLine(Coords(shps, row.shape_id), color, lbl, row)>>
                  \o RouteLines(Tail(rows), plotted \cup {row.shape_id}, shps, color, lbl)

\* Lines 204-211.
CircleMarker(stop, color, lbl) ==
    [location |-> <<stop.stop_lat, stop.stop_lon>>, color |-> color,
     popup |-> <<lbl, "Stop:", stop.stop_name>>]

\* StopMarkers without the test of show_stops.
StopMarkers_Always(stps, color, lbl, show) ==
    [i \in 1..Len(stps) |-> CircleMarker(stps[i], color, lbl)]

\* Lines 202-211: the markers added to stop_group.
StopMarkers(stps, color, lbl, show) ==
    IF show THEN [i \in 1..Len(stps) |-> CircleMarker(stps[i], color, lbl)] ELSE <<>>

\* RouteGroup that draws the lines only when the stops are shown.
RouteGroup_WhenStopsShown(feed, color, lbl) ==
    Layer(<<lbl, "Routes">>, TRUE,
          IF show_stops
          THEN RouteLines(TripRoutes(feed.trips, feed.routes), {}, feed.shapes, color, lbl)
          ELSE <<>>,
          <<>>)

\* Line 181.
RouteGroup(feed, color, lbl) ==
    Layer(<<lbl, "Routes">>, TRUE,
          RouteLines(TripRoutes(feed.trips, feed.routes), {}, feed.shapes, color, lbl), <<>>)

\* Line 182.
StopGroup(feed, color, lbl, show) ==
    Layer(<<lbl, "Stops">>, show, StopMarkers(feed.stops, color, lbl, show), <<>>)

\* Added with route_group put on the map ahead of the read of stops.txt.
Added_BeforeStopsRead(feed, color, lbl, show) ==
    IF feed.missing \notin {"none", "stops.txt"} THEN <<>>
    ELSE <<Layer(<<lbl, "Routes">>, TRUE,
                 RouteLines(TripRoutes(feed.trips, feed.routes), {}, feed.shapes, color, lbl),
                 <<>>)>>
         \o (IF show /\ feed.missing = "none"
             THEN <<Layer(<<lbl, "Stops">>, show,
                          [i \in 1..Len(feed.stops) |-> CircleMarker(feed.stops[i], color, lbl)],
                          <<>>)>>
             ELSE <<>>)

\* Lines 213-215: what the call adds to the map.
Added(feed, color, lbl, show) ==
    IF feed.missing # "none" THEN <<>>
    ELSE <<RouteGroup(feed, color, lbl)>>
         \o (IF show THEN <<StopGroup(feed, color, lbl, show)>> ELSE <<>>)

NoGroup == Layer(<<>>, FALSE, <<>>, <<>>)

\* One turn of the loop of lines 221-223: plot_gtfs of the next selected mode,
\* whose folder holds feed.  feed.missing names the file whose read raises.
PlotGtfs(feed) ==
    /\ pc = "plot"
    /\ idx <= Len(selected_modes)
    /\ LET mode == selected_modes[idx]
           cfg == GTFS_FEEDS[mode]
       IN  /\ label' = mode
           /\ exc' = feed.missing
           /\ m' = m \o Added(feed, cfg.color, mode, show_stops)
           /\ IF feed.missing # "none"
              THEN /\ reports' = Append(reports, [kind |-> "error", about |-> <<mode>>])
                   /\ shapes' = <<>>
                   /\ trips' = <<>>
                   /\ routes' = <<>>
                   /\ stops' = <<>>
                   /\ route_group' = NoGroup
                   /\ stop_group' = NoGroup
              ELSE /\ reports' = reports
                   /\ shapes' = feed.shapes
                   /\ trips' = feed.trips
                   /\ routes' = feed.routes
                   /\ stops' = feed.stops
                   /\ route_group' = RouteGroup(feed, cfg.color, mode)
                   /\ stop_group' = StopGroup(feed, cfg.color, mode, show_stops)
    /\ idx' = idx + 1
    /\ UNCHANGED <<pc, selected_modes, show_stops, show_population, population_df,
                   shapes_gdf, merged, max_pop_density, bins, rendered, fault>>

\* Lines 225-226, after the loop.
Render ==
    /\ pc = "plot"
    /\ idx > Len(selected_modes)
    /\ rendered' = TRUE
    /\ pc' = "done"
    /\ UNCHANGED <<selected_modes, show_stops, show_population, population_df,
                   shapes_gdf, merged, max_pop_density, bins, m, reports, fault,
                   idx, locals>>

-----------------------------------------------------------------------------
(* What the script reads from outside *)

\* Answers of the Census API for one county: the request raises, or it returns
\* the rows of the county's block groups (lines 92-94).
TractCode == <<0, 0, 0, 1, 0, 0>>

BlockGroupCode == <<1>>

RawPopulations ==
    {[numeric |-> FALSE, val |-> 0]}
    \cup {[numeric |-> TRUE, val |-> n] : n \in {0, 100, 1000, 30000}}

AnswerRow(county, raw) ==
    [population |-> raw, state |-> StateCode, county |-> county,
     tract |-> TractCode, block_group |-> BlockGroupCode]

Answers(county) ==
    {[ok |-> FALSE, rows |-> <<>>], [ok |-> TRUE, rows |-> <<>>]}
    \cup {[ok |-> TRUE, rows |-> <<AnswerRow(county, raw)>>] : raw \in RawPopulations}

AllAnswers ==
    {<<a, b>> : a \in Answers(counties[1]),
                b \in {[ok |-> FALSE, rows |-> <<>>],
                       [ok |-> TRUE, rows |-> <<AnswerRow(counties[2], [numeric |-> FALSE, val |-> 0])>>],
                       [ok |-> TRUE, rows |-> <<AnswerRow(counties[2], [numeric |-> TRUE, val |-> 30000])>>]}}

SomeAnswers ==
    {<<[ok |-> FALSE, rows |-> <<>>], [ok |-> FALSE, rows |-> <<>>]>>,
     <<[ok |-> TRUE, rows |-> <<AnswerRow(counties[1], [numeric |-> TRUE, val |-> 100])>>],
       [ok |-> FALSE, rows |-> <<>>]>>}

\* The block-group shapefile (line 118): the TIGER columns the script uses,
\* the polygon standing for its area.  The GEOID column is text, or, with
\* dtype "int", a 64-bit integer.
ParseInt(ds) ==
    [hi |-> ValueOf(SubSeq(ds, 1, Len(ds) - 6)),
     lo |-> ValueOf(SubSeq(ds, Len(ds) - 5, Len(ds)))]

PolygonRow(county, area, dtype) ==
    LET geoid == StateCode \o county \o TractCode \o BlockGroupCode
    IN  [STATEFP |-> StateCode, COUNTYFP |-> county, TRACTCE |-> TractCode,
         BLKGRPCE |-> BlockGroupCode,
         GEOID |-> IF dtype = "int" THEN ParseInt(geoid) ELSE geoid,
         area_km2 |-> area]

\* Areas of the polygons, km2; 0 is a degenerate geometry.
Areas == {0, 1, 3}

PolygonRows(dtype) == {PolygonRow(c, a, dtype) : c \in Range(counties), a \in Areas}

Shapefiles(dtype) == {Frame(dtype, rows) : rows \in SeqsUpTo(PolygonRows(dtype), MaxPolys)}

SomeShapefiles ==
    {Frame("str", <<PolygonRow(counties[1], 1, "str"), PolygonRow(counties[2], 1, "str")>>)}

\* The GTFS tables of one folder.
TripRows ==
    {[route_id |-> 1, shape_id |-> 1], [route_id |-> 1, shape_id |-> 2],
     [route_id |-> 2, shape_id |-> 2]}

RoutesTables ==
    {<<>>,
     <<[route_id |-> 1, route_short_name |-> "10"],
       [route_id |-> 1, route_short_name |-> "11"],
       [route_id |-> 2, route_short_name |-> "20"]>>}

ShapePoint(id, seq) ==
    [shape_id |-> id, shape_pt_sequence |-> seq,
     shape_pt_lat |-> 10 * id + seq, shape_pt_lon |-> 10 * id + seq]

ShapesTables ==
    {<<ShapePoint(1, 2), ShapePoint(1, 1)>>,
     <<ShapePoint(2, 2), ShapePoint(1, 3), ShapePoint(2, 1), ShapePoint(1, 1)>>}

StopRow(i) == [stop_lat |-> i, stop_lon |-> i, stop_name |-> <<"stop", i>>]

StopsTables == {<<>>, <<StopRow(1), StopRow(2)>>}

Feed(missing, shps, trs, rts, stps) ==
    [missing |-> missing, shapes |-> shps, trips |-> trs, routes |-> rts, stops |-> stps]

Feeds ==
    {Feed(f, <<>>, <<>>, <<>>, <<>>) : f \in Range(TableFiles)}
    \cup {Feed("none", shps, trs, rts, stps) :
              shps \in ShapesTables, trs \in SeqsUpTo(TripRows, MaxTrips),
              rts \in RoutesTables, stps \in StopsTables}

SomeFeeds ==
    {Feed("trips.txt", <<>>, <<>>, <<>>, <<>>),
     Feed("none", <<ShapePoint(1, 2), ShapePoint(1, 1)>>,
          <<[route_id |-> 1, shape_id |-> 1]>>,
          <<[route_id |-> 1, route_short_name |-> "10"]>>, <<StopRow(1)>>)}

\* What the operator picks in the sidebar (line 71): selections of up to two
\* of the five modes, in the order picked.
Selections == {<<>>, <<"Local Bus">>, <<"Light Rail", "Local Bus">>}

-----------------------------------------------------------------------------
(* The run *)

InitWith(selections) ==
    /\ pc = "fetch_population_data"
    /\ selected_modes \in selections
    /\ show_stops \in BOOLEAN
    /\ show_population \in BOOLEAN
    /\ population_df = NoneFrame
    /\ shapes_gdf = NoneFrame
    /\ merged = NoneFrame
    /\ max_pop_density = 0
    /\ bins = <<>>
    /\ m = <<>>
    /\ rendered = FALSE
    /\ reports = <<>>
    /\ fault = "none"
    /\ idx = 1
    /\ label = "none"
    /\ exc = "none"
    /\ shapes = <<>>
    /\ trips = <<>>
    /\ routes = <<>>
    /\ stops = <<>>
    /\ route_group = NoGroup
    /\ stop_group = NoGroup

\* The density pipeline over all the population inputs, one mode selected.
InitDensity == InitWith({<<"Local Bus">>})

NextDensity ==
    \/ \E answers \in AllAnswers : FetchPopulationData(answers)
    \/ \E dtype \in {"str", "int"} : \E file \in Shapefiles(dtype) : LoadBgShapes(file)
    \/ LoadBgShapes(NoneFrame)
    \/ Merge
    \/ Classify
    \/ Choropleth
    \/ \E feed \in SomeFeeds : PlotGtfs(feed)
    \/ Render

SpecDensity == InitDensity /\ [][NextDensity]_vars

\* The transit layers over all the GTFS inputs, a few population inputs.
InitTransit == InitWith(Selections)

NextTransit ==
    \/ \E answers \in SomeAnswers : FetchPopulationData(answers)
    \/ \E file \in SomeShapefiles : LoadBgShapes(file)
    \/ LoadBgShapes(NoneFrame)
    \/ Merge
    \/ Classify
    \/ Choropleth
    \/ \E feed \in Feeds : PlotGtfs(feed)
    \/ Render

SpecTransit == InitTransit /\ [][NextTransit]_vars

-----------------------------------------------------------------------------
(* Properties of the density pipeline *)

Merging == pc \notin {"fetch_population_data", "load_bg_shapes", "merge"}

\* The canonical key of a polygon, from the TIGER code columns.
PolygonKey(p) == p.STATEFP \o p.COUNTYFP \o p.TRACTCE \o p.BLKGRPCE

SameGeography(p, t) ==
    /\ p.STATEFP = t.state
    /\ p.COUNTYFP = t.county
    /\ p.TRACTCE = t.tract
    /\ p.BLKGRPCE = t.block_group

MergedKeys == {merged.rows[i].GEOID : i \in 1..Len(merged.rows)}

\* C3: a failed retrieval of the population table or of the block-group
\* polygons is not fatal: with transit modes selected, the script does not stop
\* on an uncaught exception before it has plotted them and rendered the map.
C3_RetrievalFailureNotFatal ==
    (Merging /\ (population_df.is_none \/ shapes_gdf.is_none) /\ selected_modes # <<>>)
        => fault = "none"

\* C4: the density of every row of the merged table is a finite number that
\* is not negative and not above the clip bound of 14000.
C4_DensityWithinBounds ==
    (Merging /\ ~merged.is_none) =>
        \A i \in 1..Len(merged.rows) :
            LET d == merged.rows[i].pop_density
            IN  /\ d.den > 0
                /\ d.num >= 0
                /\ d.num <= 14000 * d.den

\* A row whose density was above the bound and is now the bound.
C4_Witness ==
    /\ Merging
    /\ ~merged.is_none
    /\ \E i \in 1..Len(merged.rows) :
           /\ merged.rows[i].population.val = 30000
           /\ merged.rows[i].area_km2 = 1
           /\ merged.rows[i].pop_density = Frac(14000, 1)

\* C5: the maximum density is rounded up to a thousand (a maximum that is a
\* whole thousand may stay or go to the next), and the bin edges cut
\* [0, rounded maximum] into exactly 10 bins of equal width: 11 edges, the
\* first 0, the last the rounded maximum.
C5_TenEqualBins ==
    pc \in {"choropleth", "plot", "done"} =>
        /\ max_pop_density % 1000 = 0
        /\ \A i \in 1..Len(merged.rows) :
               LET d == merged.rows[i].pop_density
               IN  /\ d.num <= max_pop_density * d.den
        /\ \E i \in 1..Len(merged.rows) :
               LET d == merged.rows[i].pop_density
               IN  d.num >= (max_pop_density - 1000) * d.den
        /\ Len(bins) = 11
        /\ bins[1] = 0
        /\ bins[Len(bins)] = max_pop_density
        /\ \A i \in 1..(Len(bins) - 1) : 10 * (bins[i + 1] - bins[i]) = max_pop_density

\* C6: the merge is a left join from the polygons on the key: every row of the
\* merged table is a polygon's, with the population of a record of that key,
\* and that population is present and above 0; a polygon with no such record
\* has no row.
C6_OnlyPopulatedUnits ==
    (Merging /\ ~merged.is_none) =>
        /\ \A i \in 1..Len(merged.rows) :
               LET row == merged.rows[i]
               IN  /\ ~row.population.nan
                   /\ row.population.val > 0
                   /\ \E j \in 1..Len(shapes_gdf.rows) :
                          PolygonKey(shapes_gdf.rows[j]) = row.GEOID
                   /\ \E j \in 1..Len(population_df.rows) :
                          /\ population_df.rows[j].GEOID = row.GEOID
                          /\ population_df.rows[j].population = row.population
        /\ \A j \in 1..Len(shapes_gdf.rows) :
               (\A k \in 1..Len(population_df.rows) :
                    SameGeography(shapes_gdf.rows[j], population_df.rows[k])
                        => \/ population_df.rows[k].population.nan
                           \/ population_df.rows[k].population.val <= 0)
                   => PolygonKey(shapes_gdf.rows[j]) \notin MergedKeys

\* One polygon kept, one left out for a population that is absent or not
\* above 0.
C6_Witness ==
    /\ Merging
    /\ ~merged.is_none
    /\ merged.rows # <<>>
    /\ \E j \in 1..Len(shapes_gdf.rows), k \in 1..Len(population_df.rows) :
           /\ SameGeography(shapes_gdf.rows[j], population_df.rows[k])
           /\ \/ population_df.rows[k].population.nan
              \/ population_df.rows[k].population.val <= 0
           /\ PolygonKey(shapes_gdf.rows[j]) \notin MergedKeys

\* C7: a unit of positive population whose area is zero is not in the merged
\* table.
C7_ZeroAreaExcluded ==
    (Merging /\ ~merged.is_none) =>
        \A i \in 1..Len(merged.rows) : merged.rows[i].area_km2 # 0

\* C8: a record of the population table and a polygon of the same geography
\* have the same key, whether the polygon's key is stored as text or as an
\* integer: before the merge the polygon's key, written as a string, is the
\* record's GEOID; after it the two have joined.
C8_KeysAgree ==
    (pc # "fetch_population_data" /\ pc # "load_bg_shapes"
        /\ ~population_df.is_none /\ ~shapes_gdf.is_none) =>
        \A j \in 1..Len(shapes_gdf.rows), k \in 1..Len(population_df.rows) :
            SameGeography(shapes_gdf.rows[j], population_df.rows[k]) =>
                LET p == shapes_gdf.rows[j]
                    t == population_df.rows[k]
                IN  IF pc = "merge"
                    THEN /\ AsTypeStr(shapes_gdf.dtype, p.GEOID) = t.GEOID
                         /\ t.GEOID = PolygonKey(p)
                    ELSE /\ p.GEOID = t.GEOID
                         /\ (~t.population.nan /\ t.population.val > 0) =>
                                \E i \in 1..Len(merged.rows) :
                                    /\ merged.rows[i].GEOID = t.GEOID
                                    /\ merged.rows[i].population = t.population

\* About to merge: a polygon whose key is stored as an integer, and the
\* record of its geography.
C8_Witness ==
    /\ pc = "merge"
    /\ ~population_df.is_none
    /\ ~shapes_gdf.is_none
    /\ shapes_gdf.dtype = "int"
    /\ \E j \in 1..Len(shapes_gdf.rows), k \in 1..Len(population_df.rows) :
           /\ SameGeography(shapes_gdf.rows[j], population_df.rows[k])
           /\ population_df.rows[k].population.val = 100
           /\ shapes_gdf.rows[j].GEOID = [hi |-> 240010, lo |-> 1001]

-----------------------------------------------------------------------------
(* Properties of the transit layers *)

\* plot_gtfs has been called, and its last call raised nothing.
Plotted == idx > 1 /\ exc = "none"

LayersNamed(name) == {i \in 1..Len(m) : m[i].name = name}

ShapeIdsOf(trs) == {trs[i].shape_id : i \in 1..Len(trs)}

RowsOfShape(shps, id) == {i \in 1..Len(shps) : shps[i].shape_id = id}

PointsOf(shps, id) ==
    {<<shps[i].shape_pt_lat, shps[i].shape_pt_lon>> : i \in RowsOfShape(shps, id)}

ModeError(mode) == [kind |-> "error", about |-> <<mode>>]

Reported(mode) == \E r \in 1..Len(reports) : reports[r] = ModeError(mode)

\* A call of plot_gtfs in which a read raises leaves the map as it was and
\* reports the mode.
C2_FailingCall ==
    (pc = "plot" /\ idx' = idx + 1 /\ exc' # "none") =>
        /\ m' = m
        /\ reports' = Append(reports, ModeError(selected_modes[idx]))

\* Of the modes plotted so far, the reported ones have no layer on the map and
\* the others have theirs.
C2_LayersOfModes ==
    \A i \in 1..(idx - 1) :
        LET mode == selected_modes[i]
        IN  IF Reported(mode)
            THEN /\ LayersNamed(<<mode, "Routes">>) = {}
                 /\ LayersNamed(<<mode, "Stops">>) = {}
            ELSE /\ Cardinality(LayersNamed(<<mode, "Routes">>)) = 1
                 /\ Cardinality(LayersNamed(<<mode, "Stops">>)) = (IF show_stops THEN 1 ELSE 0)

\* C2: when a table of a mode cannot be read, none of the mode's layers is on
\* the map, the failure is reported with the mode's name, and the layers of the
\* other modes are on the map untouched.
C2_FailureIsolated == [][C2_FailingCall]_vars /\ []C2_LayersOfModes

\* The run is over: the first mode failed, the second has its lines.
C2_Witness ==
    /\ pc = "done"
    /\ Len(selected_modes) = 2
    /\ Reported(selected_modes[1])
    /\ ~Reported(selected_modes[2])
    /\ LayersNamed(<<selected_modes[1], "Routes">>) = {}
    /\ \E i \in LayersNamed(<<selected_modes[2], "Routes">>) : m[i].features # <<>>

FirstTrips(trs) ==
    {i \in 1..Len(trs) : \A j \in 1..(i - 1) : trs[j].shape_id # trs[i].shape_id}

KthFirstTrip(trs, k) ==
    CHOOSE i \in FirstTrips(trs) : Cardinality({j \in FirstTrips(trs) : j < i}) = k - 1

NameOfRoute(rts, route_id) ==
    LET found == {i \in 1..Len(rts) : rts[i].route_id = route_id}
    IN  IF found = {} THEN "nan"
        ELSE rts[CHOOSE i \in found : \A j \in found : i <= j].route_short_name

PointsInOrder(shps, id) ==
    LET R == RowsOfShape(shps, id)
    IN  [k \in 1..Cardinality(R) |->
            LET i == CHOOSE i \in R :
                         Cardinality({j \in R : shps[j].shape_pt_sequence
                                                    < shps[i].shape_pt_sequence}) = k - 1
            IN  <<shps[i].shape_pt_lat, shps[i].shape_pt_lon>>]

LinesOfTables(trs, rts, shps, mode) ==
    [k \in 1..Cardinality(FirstTrips(trs)) |->
        LET trip == trs[KthFirstTrip(trs, k)]
        IN  [locations |-> PointsInOrder(shps, trip.shape_id),
             color |-> GTFS_FEEDS[mode].color,
             tooltip |-> <<mode, "Route", NameOfRoute(rts, trip.route_id)>>]]

\* The lines of the route layer are those of the mode's tables, whatever
\* show_stops and show_population are.
C10_RouteLines ==
    Plotted =>
        \A i \in LayersNamed(<<label, "Routes">>) :
            m[i].features = LinesOfTables(trips, routes, shapes, label)

\* The choropleth layer is on the map when show_population is on, and its
\* features are the rows of the merged table, whatever show_stops and the
\* selected modes are.
C10_ChoroplethFeatures ==
    pc \in {"plot", "done"} =>
        /\ Cardinality(LayersNamed(<<"Population Density">>)) = (IF show_population THEN 1 ELSE 0)
        /\ \A i \in LayersNamed(<<"Population Density">>) :
               /\ Len(m[i].features) = Len(merged.rows)
               /\ \A k \in 1..Len(merged.rows) :
                      /\ m[i].features[k].GEOID = merged.rows[k].GEOID
                      /\ m[i].features[k].pop_density = merged.rows[k].pop_density

\* No step changes a layer that is on the map.
C10_LayersKept ==
    /\ Len(m') >= Len(m)
    /\ \A i \in 1..Len(m) : m'[i] = m[i]

====
